---- MODULE Spec2Model ----
(***************************************************************************)
(* Model of the three metagenomics wrappers:                               *)
(*   executables/MGassembly/assembleReads_by_metaspades.py                 *)
(*   executables/MGassemblyReadMapping/index_MGassembly_by_bowtie.py       *)
(*   executables/MGassemblyReadMapping/mapReads_MGassembly_by_bowtie.py    *)
(*                                                                         *)
(* One behaviour is one Python process: either one of the three main()     *)
(* entry points after argparse has accepted the command line, or a direct  *)
(* call of one of the module-level functions (whose parameters default to  *)
(* None).  Python values are modelled with their types: str as a TLA+      *)
(* string, list as a sequence, int as an integer, and an optional value    *)
(* as a sequence of length 0 (None) or 1 (the value).                      *)
(***************************************************************************)
EXTENDS Integers, Sequences, FiniteSets, TLC

VARIABLES entry, pc, args, kmersOut, cmd, log, dirs, launches,
          traceback, exitStatus

vars == <<entry, pc, args, kmersOut, cmd, log, dirs, launches,
          traceback, exitStatus>>

----------------------------------------------------------------------------
(* Bounds of the model.                                                    *)

\* longest R1 / R2 list passed to a wrapper
MaxReads == 2
\* longest k-mer string handed to validate_kmers when it is called directly
MaxKmerLen == 4
\* largest exit code, and largest signal number, the external tool ends with
MaxExitCode == 3
MaxSignal == 2

----------------------------------------------------------------------------
(* Python values.                                                          *)

None == <<>>
Some(v) == <<v>>
IsNone(x) == x = <<>>
Val(x) == x[1]

\* `not x` for an optional str and for an optional list
FalsyStr(x) == IsNone(x) \/ Val(x) = ""
FalsyList(x) == IsNone(x) \/ Val(x) = <<>>

\* s[i] of a str, 1-based
CharAt(s, i) == SubSeq(s, i, i)
StartsWith(s, c) == Len(s) > 0 /\ CharAt(s, 1) = c
EndsWith(s, c) == Len(s) > 0 /\ CharAt(s, Len(s)) = c

DigitChars == <<"0", "1", "2", "3", "4", "5", "6", "7", "8", "9">>
IsDigit(c) == \E d \in 1..10 : DigitChars[d] = c
DigitVal(c) == (CHOOSE d \in 1..10 : DigitChars[d] = c) - 1

RECURSIVE NatStr(_)
NatStr(n) == IF n < 10 THEN DigitChars[n + 1]
             ELSE NatStr(n \div 10) \o DigitChars[(n % 10) + 1]

\* str(n) of an int
Str(n) == IF n < 0 THEN "-" \o NatStr(0 - n) ELSE NatStr(n)

\* sep.join(xs) of a list of str
RECURSIVE Join(_, _)
Join(sep, xs) == IF xs = <<>> THEN ""
                 ELSE IF Len(xs) = 1 THEN xs[1]
                 ELSE xs[1] \o sep \o Join(sep, Tail(xs))

\* s.split(sep) for a one-character separator: "" splits into [""]
RECURSIVE Split(_, _)
Split(s, sep) ==
    IF \E i \in 1..Len(s) : CharAt(s, i) = sep
    THEN LET i == CHOOSE j \in 1..Len(s) :
                      /\ CharAt(s, j) = sep
                      /\ \A h \in 1..(j - 1) : CharAt(s, h) # sep
         IN  <<SubSeq(s, 1, i - 1)>> \o Split(SubSeq(s, i + 1, Len(s)), sep)
    ELSE <<s>>

\* s.strip(): leading and trailing blanks removed
RECURSIVE Strip(_)
Strip(s) == IF StartsWith(s, " ") THEN Strip(SubSeq(s, 2, Len(s)))
            ELSE IF EndsWith(s, " ") THEN Strip(SubSeq(s, 1, Len(s) - 1))
            ELSE s

\* the digits of an int literal: digits, single underscores between digits
IsIntBody(b) ==
    /\ Len(b) > 0
    /\ IsDigit(CharAt(b, 1))
    /\ IsDigit(CharAt(b, Len(b)))
    /\ \A i \in 1..Len(b) : IsDigit(CharAt(b, i)) \/ CharAt(b, i) = "_"
    /\ \A i \in 1..(Len(b) - 1) : ~(CharAt(b, i) = "_" /\ CharAt(b, i + 1) = "_")

RECURSIVE BodyVal(_, _)
BodyVal(b, acc) ==
    IF b = "" THEN acc
    ELSE IF CharAt(b, 1) = "_" THEN BodyVal(SubSeq(b, 2, Len(b)), acc)
    ELSE BodyVal(SubSeq(b, 2, Len(b)), 10 * acc + DigitVal(CharAt(b, 1)))

\* int(s): [ok |-> FALSE] stands for ValueError
ParseInt(s) ==
    LET t == Strip(s)
        signed == StartsWith(t, "-") \/ StartsWith(t, "+")
        body == IF signed THEN SubSeq(t, 2, Len(t)) ELSE t
    IN  IF ~IsIntBody(body) THEN [ok |-> FALSE, val |-> 0]
        ELSE [ok |-> TRUE,
              val |-> IF StartsWith(t, "-") THEN 0 - BodyVal(body, 0)
                      ELSE BodyVal(body, 0)]

----------------------------------------------------------------------------
(* assembleReads_by_metaspades.py: validate_kmers                          *)

KmerMax == 150

\* variant: the bound the docstring states ("less than 128") instead of 150
KmerInRangeUnder128(k_int) == k_int < 128

\* the upper-bound test of line 25
KmerInRange(k_int) == k_int <= KmerMax

\* the parity test of line 27 (Python's %, like TLA+'s, is never negative here)
KmerIsEven(k_int) == k_int % 2 = 0

\* the body of the for loop for one token: [ok, text] where text is the
\* validated str(k_int) or the message of the error logged before sys.exit(1)
KmerToken(k) ==
    LET p == ParseInt(Strip(k)) IN
    IF ~p.ok
    THEN [ok |-> FALSE,
          text |-> "Invalid k-mer value '" \o k
                   \o "': invalid literal for int() with base 10: '"
                   \o Strip(k) \o "'"]
    ELSE IF ~KmerInRange(p.val)
    THEN [ok |-> FALSE,
          text |-> "Invalid k-mer value '" \o k \o "': K-mer value '"
                   \o Str(p.val)
                   \o "' is out of the allowed range (under 128)."]
    ELSE IF KmerIsEven(p.val)
    THEN [ok |-> FALSE,
          text |-> "Invalid k-mer value '" \o k \o "': K-mer value '"
                   \o Str(p.val) \o "' must be an odd number."]
    ELSE [ok |-> TRUE, text |-> Str(p.val)]

\* validate_kmers(kmer_str): [ok |-> TRUE, text |-> the returned string], or
\* [ok |-> FALSE, text |-> the error logged] when it ends in sys.exit(1) at
\* the first offending token
validate_kmers(kmer_str) ==
    IF FalsyStr(kmer_str) THEN [ok |-> TRUE, text |-> ""]
    ELSE LET k_list == Split(Val(kmer_str), ",")
             bad == {i \in 1..Len(k_list) : ~KmerToken(k_list[i]).ok}
         IN  IF bad # {}
             THEN KmerToken(k_list[CHOOSE i \in bad : \A j \in bad : i <= j])
             ELSE [ok |-> TRUE,
                   text |-> Join(",", [i \in 1..Len(k_list) |->
                                           KmerToken(k_list[i]).text])]

----------------------------------------------------------------------------
(* Inputs of one process.                                                  *)

Letters == <<"a", "b", "c", "d", "e", "f">>

\* the i-th R1 (mate = "1") or R2 (mate = "2") file name
ReadFile(i, mate) == Letters[i] \o "_R" \o mate \o ".fq"
ReadList(n, mate) == [i \in 1..n |-> ReadFile(i, mate)]

\* what a direct call may pass (every parameter defaults to None) ...
ApiReadLists(mate) == {None} \cup {Some(ReadList(n, mate)) : n \in 0..MaxReads}
\* ... and what argparse produces (nargs='+', required=True)
CliReadLists(mate) == {Some(ReadList(n, mate)) : n \in 1..MaxReads}

ApiSingleLists == {None, Some(<<>>), Some(<<"">>), Some(<<"u1.fq">>),
                   Some(<<"u1.fq", "u2.fq">>)}
CliSingleLists == ApiSingleLists \ {None}
ApiMergedLists == {None, Some(<<"m1.fq", "m2.fq">>)}
CliMergedLists == {Some(<<>>), Some(<<"m1.fq", "m2.fq">>)}

ApiIndexFolders == {None, Some(""), Some("/idx"), Some("/idx/")}
ApiOutputDirs == {None, Some(""), Some("out"), Some("out/")}
ApiAssemblyNames == {None, Some(""), Some("sampleA"), Some("/abs")}
ApiIndexNames == {None, Some(""), Some("sampleA")}
ApiMetagenomeNames == {None, Some("mg"), Some("/mg")}
ApiInputAssemblies == {None, Some(""), Some("asm.fna")}
ApiThreads == {None, Some(0), Some(4)}
ApiMemory == {None, Some(8)}
ApiKmers == {None, Some(""), Some("21,33,55,77,99,127"), Some("21,22"),
             Some("151"), Some("-3, 5")}

\* argparse yields a str for a type=str option and an int for type=int
Cli(S) == S \ {None}

\* the strings validate_kmers is called on directly: every string of at most
\* MaxKmerLen characters over KmerAlphabet
KmerAlphabet == {"0", "1", "4", "9", "-", ",", " ", "x"}
RECURSIVE StringsOfLen(_)
StringsOfLen(n) == IF n = 0 THEN {""}
                   ELSE {s \o c : s \in StringsOfLen(n - 1), c \in KmerAlphabet}
KmerStrings == UNION {StringsOfLen(n) : n \in 0..MaxKmerLen}

NoArgs == [r1_reads |-> None, r2_reads |-> None, single_reads |-> None,
           merged_reads |-> None, output_dir |-> None, assembly_name |-> None,
           metagenome_name |-> None, threads |-> None,
           memory_limit_gb |-> None, kmers |-> None,
           bowtie2_index_folder |-> None, input_assembly |-> None,
           output_index_name |-> None]

\* run_metaspades(...) called directly, or from main() of the assembly wrapper
AssemblyArgs(cli) ==
    {[NoArgs EXCEPT !.r1_reads = r1, !.r2_reads = r2, !.single_reads = s,
                    !.merged_reads = m, !.output_dir = o,
                    !.assembly_name = a, !.threads = t,
                    !.memory_limit_gb = g, !.kmers = k] :
        r1 \in (IF cli THEN CliReadLists("1") ELSE ApiReadLists("1")),
        r2 \in (IF cli THEN CliReadLists("2") ELSE ApiReadLists("2")),
        s \in (IF cli THEN {Some(<<>>), Some(<<"u1.fq", "u2.fq">>)}
                      ELSE {None, Some(<<"u1.fq", "u2.fq">>)}),
        m \in (IF cli THEN CliMergedLists ELSE ApiMergedLists),
        o \in (IF cli THEN Cli(ApiOutputDirs) ELSE ApiOutputDirs),
        a \in (IF cli THEN {Some(""), Some("sampleA")}
                      ELSE {None, Some(""), Some("sampleA")}),
        t \in (IF cli THEN Cli(ApiThreads) ELSE ApiThreads),
        g \in ApiMemory,
        k \in (IF cli THEN Cli(ApiKmers) ELSE ApiKmers)}

\* run_bowtie_indexing(...) called directly, or from main() of the index wrapper
IndexArgs(cli) ==
    {[NoArgs EXCEPT !.input_assembly = f, !.output_index_name = n,
                    !.output_dir = o] :
        f \in (IF cli THEN Cli(ApiInputAssemblies) ELSE ApiInputAssemblies),
        n \in (IF cli THEN Cli(ApiIndexNames) ELSE ApiIndexNames),
        o \in (IF cli THEN Cli(ApiIndexFolders) ELSE ApiIndexFolders)}

\* run_mapping(...) called directly, or from main() of the mapping wrapper
MappingArgs(cli) ==
    {[NoArgs EXCEPT !.bowtie2_index_folder = x, !.r1_reads = r1,
                    !.r2_reads = r2, !.single_reads = s, !.output_dir = o,
                    !.assembly_name = a, !.metagenome_name = g,
                    !.threads = t] :
        x \in (IF cli THEN Cli(ApiIndexFolders) ELSE ApiIndexFolders),
        r1 \in (IF cli THEN CliReadLists("1") ELSE ApiReadLists("1")),
        r2 \in (IF cli THEN CliReadLists("2") ELSE ApiReadLists("2")),
        s \in (IF cli THEN CliSingleLists ELSE ApiSingleLists),
        o \in (IF cli THEN Cli(ApiOutputDirs) ELSE ApiOutputDirs),
        a \in (IF cli THEN Cli(ApiAssemblyNames) ELSE ApiAssemblyNames),
        g \in (IF cli THEN Cli(ApiMetagenomeNames) ELSE ApiMetagenomeNames),
        t \in (IF cli THEN Cli(ApiThreads) ELSE ApiThreads)}

\* samtools_view / samtools_sort / samtools_index called directly
SamtoolsArgs ==
    {[NoArgs EXCEPT !.output_dir = o, !.assembly_name = a,
                    !.metagenome_name = g] :
        o \in ApiOutputDirs, a \in ApiAssemblyNames, g \in ApiMetagenomeNames}

\* validate_kmers called directly
KmerArgs == {[NoArgs EXCEPT !.kmers = k] :
                k \in {None} \cup {Some(s) : s \in KmerStrings}}

MainEntries == {"assembly.main", "index.main", "mapping.main"}
SamtoolsEntries == {"samtools_view", "samtools_sort", "samtools_index"}

\* the first function each entry point runs
FirstPc(e) == CASE e = "assembly.main" -> "run_metaspades"
                [] e = "index.main" -> "run_bowtie_indexing"
                [] e = "mapping.main" -> "run_mapping"
                [] OTHER -> e

EntryArgs(e) == CASE e = "assembly.main" -> AssemblyArgs(TRUE)
                  [] e = "run_metaspades" -> AssemblyArgs(FALSE)
                  [] e = "index.main" -> IndexArgs(TRUE)
                  [] e = "run_bowtie_indexing" -> IndexArgs(FALSE)
                  [] e = "mapping.main" -> MappingArgs(TRUE)
                  [] e = "run_mapping" -> MappingArgs(FALSE)
                  [] e = "validate_kmers" -> KmerArgs
                  [] OTHER -> SamtoolsArgs

Entries == MainEntries \cup SamtoolsEntries
           \cup {"run_metaspades", "run_bowtie_indexing", "run_mapping",
                 "validate_kmers"}

Init ==
    /\ entry \in Entries
    /\ args \in EntryArgs(entry)
    /\ pc = FirstPc(entry)
    /\ kmersOut = None
    /\ cmd = <<>>
    /\ log = <<>>
    /\ dirs = {}
    /\ launches = <<>>
    /\ traceback = None
    /\ exitStatus = None

----------------------------------------------------------------------------
(* What every function of the three files does with the process.           *)

LogLine(level, msg) == [level |-> level, msg |-> msg]

\* str(list) of a list of str, as the f-string of `Command: {e.cmd}` prints it
PyListRepr(xs) ==
    "[" \o Join(", ", [i \in 1..Len(xs) |-> "'" \o xs[i] \o "'"]) \o "]"

\* the status the operating system sees after sys.exit(n)
ExitStatusOf(n) == n % 256

\* os.path.join(a, b) of posixpath
PathJoin(a, b) == IF StartsWith(b, "/") THEN b
                  ELSE IF a = "" \/ EndsWith(a, "/") THEN a \o b
                  ELSE a \o "/" \o b

\* where control goes when function f returns normally: back to the direct
\* caller, or to the next statement of main()
AfterReturn(f) ==
    IF entry = f THEN "returned"
    ELSE CASE f = "run_mapping" -> "samtools_view"
           [] f = "samtools_view" -> "samtools_sort"
           [] f = "samtools_sort" -> "samtools_index"
           [] OTHER -> "main_return"

\* logger.error(msg); sys.exit(n)
ErrorExit(msg, n) ==
    /\ log' = Append(log, LogLine("ERROR", msg))
    /\ exitStatus' = Some(ExitStatusOf(n))
    /\ pc' = "exited"

\* an exception nothing catches: the interpreter prints the traceback to
\* stderr and the process ends with status 1
Uncaught(exc) ==
    /\ traceback' = Some(exc)
    /\ exitStatus' = Some(1)
    /\ pc' = "exited"

\* the outcomes of subprocess.run(cmd, check=True): the tool ran and ended
\* with a return code (negative: killed by that signal), the executable was
\* not found, or another exception was raised
ToolOutcomes ==
    {[kind |-> "returned", code |-> c] :
        c \in ((0 - MaxSignal)..MaxExitCode) \cup {255}}
    \cup {[kind |-> "FileNotFoundError", code |-> 0],
          [kind |-> "PermissionError", code |-> 0]}

\* variant: the handler exits with 1 whatever the tool returned
FailureExitCodeAlwaysOne(returncode) == 1

\* the return code sys.exit is given in the CalledProcessError handler
FailureExitCode(returncode) == returncode

\* variant: `except Exception` written before `except FileNotFoundError`
ExceptClauseGenericFirst(o) ==
    IF o.kind = "returned" /\ o.code = 0 THEN "none"
    ELSE IF o.kind = "returned" THEN "CalledProcessError"
    ELSE "Exception"

\* the except clause that catches what subprocess.run(cmd, check=True) raises
\* ("none": it returns); the clauses are tried in the order they are written
ExceptClause(o) ==
    IF o.kind = "returned" /\ o.code = 0 THEN "none"
    ELSE IF o.kind = "returned" THEN "CalledProcessError"
    ELSE IF o.kind = "FileNotFoundError" THEN "FileNotFoundError"
    ELSE "Exception"

\* the try / except around subprocess.run, the same in the three wrappers
\* but for the words: the log lines added and the status the process exits
\* with (None: the function returns)
RunOutcome(c, o, tool, exe, hint) ==
    CASE ExceptClause(o) = "none" ->
           [lines |-> <<LogLine("INFO", tool \o " execution completed successfully.")>>,
            exit |-> None]
      [] ExceptClause(o) = "CalledProcessError" ->
           [lines |-> <<LogLine("ERROR", tool \o " command failed with exit code "
                                          \o Str(o.code)),
                        LogLine("ERROR", "Command: " \o PyListRepr(c))>>,
            exit |-> Some(ExitStatusOf(FailureExitCode(o.code)))]
      [] ExceptClause(o) = "FileNotFoundError" ->
           [lines |-> <<LogLine("ERROR", "Error: '" \o exe \o "' command not found. "
                                          \o "Ensure " \o hint
                                          \o " is installed and in your PATH within the container.")>>,
            exit |-> Some(ExitStatusOf(1))]
      [] OTHER ->
           [lines |-> <<LogLine("ERROR", "An unexpected error occurred: "
                                          \o "[Errno 13] Permission denied: '"
                                          \o exe \o "'")>>,
            exit |-> Some(ExitStatusOf(1))]

\* variant: a failed run is tried again instead of ending the process
LaunchWithRetry(f, tool, exe, hint) ==
    \E o \in ToolOutcomes :
        LET r == RunOutcome(cmd, o, tool, exe, hint) IN
        /\ launches' = Append(launches, [cmd |-> cmd, outcome |-> o])
        /\ log' = log \o r.lines
        /\ exitStatus' = None
        /\ pc' = IF IsNone(r.exit) THEN AfterReturn(f) ELSE pc
        /\ UNCHANGED <<entry, args, kmersOut, cmd, dirs, traceback>>

\* subprocess.run and its handlers inside function f
Launch(f, tool, exe, hint) ==
    \E o \in ToolOutcomes :
        LET r == RunOutcome(cmd, o, tool, exe, hint) IN
        /\ launches' = Append(launches, [cmd |-> cmd, outcome |-> o])
        /\ log' = log \o r.lines
        /\ exitStatus' = r.exit
        /\ pc' = IF IsNone(r.exit) THEN AfterReturn(f) ELSE "exited"
        /\ UNCHANGED <<entry, args, kmersOut, cmd, dirs, traceback>>

\* os.makedirs(output_dir, exist_ok=True), then the command argv is built and
\* the INFO lines are logged; makedirs may raise OSError, which nothing catches
Prepare(f, infos, argv) ==
    \/ /\ dirs' = dirs \cup {Val(args.output_dir)}
       /\ log' = log \o [i \in 1..Len(infos) |-> LogLine("INFO", infos[i])]
       /\ cmd' = argv
       /\ pc' = f \o ".run"
       /\ UNCHANGED <<entry, args, kmersOut, launches, traceback, exitStatus>>
    \/ /\ Uncaught("OSError")
       /\ UNCHANGED <<entry, args, kmersOut, cmd, log, dirs, launches>>

\* a chain of `if <fails>: logger.error(msg); sys.exit(1)`: the message of
\* the first check that fails, or None
RECURSIVE FirstFailure(_)
FirstFailure(checks) ==
    IF checks = <<>> THEN None
    ELSE IF checks[1].fails THEN Some(checks[1].msg)
    ELSE FirstFailure(Tail(checks))

Check(fails, msg) == [fails |-> fails, msg |-> msg]

\* variant: the length check left out
LengthsDifferNever(r1, r2) == FALSE

\* len(r1_reads) != len(r2_reads), reached only with both lists non-empty
LengthsDiffer(r1, r2) ==
    IF FalsyList(r1) \/ FalsyList(r2) THEN FALSE
    ELSE Len(Val(r1)) # Len(Val(r2))

RECURSIVE Flatten(_)
Flatten(xss) == IF xss = <<>> THEN <<>> ELSE xss[1] \o Flatten(Tail(xss))

----------------------------------------------------------------------------
(* assembleReads_by_metaspades.py: run_metaspades                          *)

MetaspadesChecks(a) ==
    <<Check(FalsyList(a.r1_reads) \/ FalsyList(a.r2_reads),
            "Error: Paired-end R1 and R2 reads are mandatory."),
      Check(LengthsDiffer(a.r1_reads, a.r2_reads),
            "Error: Number of R1 files must match the number of R2 files."),
      Check(FalsyStr(a.output_dir), "Error: Output directory is mandatory."),
      Check(FalsyStr(a.assembly_name), "Error: Assembly name is mandatory."),
      Check(IsNone(a.threads), "Error: Number of threads is mandatory.")>>

\* variant: later pairs numbered from 2 (`--pe{i+1}`)
PairFlagsOneBased(i, r1, r2) ==
    IF i = 0 THEN <<"-1", r1, "-2", r2>>
    ELSE <<"--pe" \o Str(i + 1) \o "-1", r1, "--pe" \o Str(i + 1) \o "-2", r2>>

\* the flags of the pair at enumerate index i (0-based)
PairFlags(i, r1, r2) ==
    IF i = 0 THEN <<"-1", r1, "-2", r2>>
    ELSE <<"--pe" \o Str(i) \o "-1", r1, "--pe" \o Str(i) \o "-2", r2>>

\* for i, (r1, r2) in enumerate(zip(r1_reads, r2_reads))
PairedReadFlags(r1_reads, r2_reads) ==
    LET n == IF Len(r1_reads) <= Len(r2_reads) THEN Len(r1_reads)
             ELSE Len(r2_reads)
    IN  Flatten([j \in 1..n |-> PairFlags(j - 1, r1_reads[j], r2_reads[j])])

\* `if reads: for x in reads: cmd.extend([flag, x])`
EachFlag(flag, reads) ==
    IF FalsyList(reads) THEN <<>>
    ELSE Flatten([j \in 1..Len(Val(reads)) |-> <<flag, Val(reads)[j]>>])

MetaspadesCmd(a, validated_kmers_str) ==
    <<"spades.py", "--meta", "-o", Val(a.output_dir), "-t", Str(Val(a.threads))>>
    \o (IF IsNone(a.memory_limit_gb) THEN <<>>
        ELSE <<"-m", Str(Val(a.memory_limit_gb))>>)
    \o <<"-k", validated_kmers_str>>
    \o PairedReadFlags(Val(a.r1_reads), Val(a.r2_reads))
    \o EachFlag("-s", a.single_reads)
    \o EachFlag("--merged", a.merged_reads)

\* variant: os.makedirs (line 88) placed before validate_kmers (line 84)
run_metaspades_validate_after_makedirs ==
    /\ pc = "run_metaspades"
    /\ LET f == FirstFailure(MetaspadesChecks(args))
           k == validate_kmers(args.kmers)
       IN  IF ~IsNone(f)
           THEN ErrorExit(Val(f), 1) /\ UNCHANGED <<kmersOut, dirs>>
           ELSE IF ~k.ok
           THEN /\ ErrorExit(k.text, 1)
                /\ dirs' = dirs \cup {Val(args.output_dir)}
                /\ UNCHANGED kmersOut
           ELSE /\ kmersOut' = Some(k.text)
                /\ log' = Append(log, LogLine("INFO", "Using k-mers: " \o k.text))
                /\ pc' = "run_metaspades.prepare"
                /\ UNCHANGED <<exitStatus, dirs>>
    /\ UNCHANGED <<entry, args, cmd, launches, traceback>>

\* lines 66-85: the presence checks, then validate_kmers
run_metaspades_validate ==
    /\ pc = "run_metaspades"
    /\ LET f == FirstFailure(MetaspadesChecks(args))
           k == validate_kmers(args.kmers)
       IN  IF ~IsNone(f)
           THEN ErrorExit(Val(f), 1) /\ UNCHANGED kmersOut
           ELSE IF ~k.ok
           THEN ErrorExit(k.text, 1) /\ UNCHANGED kmersOut
           ELSE /\ kmersOut' = Some(k.text)
                /\ log' = Append(log, LogLine("INFO", "Using k-mers: " \o k.text))
                /\ pc' = "run_metaspades.prepare"
                /\ UNCHANGED exitStatus
    /\ UNCHANGED <<entry, args, cmd, dirs, launches, traceback>>

\* lines 87-121
run_metaspades_prepare ==
    /\ pc = "run_metaspades.prepare"
    /\ LET argv == MetaspadesCmd(args, Val(kmersOut)) IN
       Prepare("run_metaspades",
               <<"SPAdes output will be written to: " \o Val(args.output_dir)>>
               \o (IF IsNone(args.memory_limit_gb) THEN <<>>
                   ELSE <<"Setting SPAdes memory limit to "
                          \o Str(Val(args.memory_limit_gb)) \o " GB.">>)
               \o <<"Executing SPAdes command: " \o Join(" ", argv)>>,
               argv)

\* lines 123-137
run_metaspades_run ==
    /\ pc = "run_metaspades.run"
    /\ Launch("run_metaspades", "SPAdes", "spades.py", "SPAdes")

\* validate_kmers called on its own
validate_kmers_call ==
    /\ pc = "validate_kmers"
    /\ LET k == validate_kmers(args.kmers) IN
       IF k.ok
       THEN /\ kmersOut' = Some(k.text)
            /\ pc' = "returned"
            /\ UNCHANGED <<log, exitStatus>>
       ELSE ErrorExit(k.text, 1) /\ UNCHANGED kmersOut
    /\ UNCHANGED <<entry, args, cmd, dirs, launches, traceback>>

----------------------------------------------------------------------------
(* index_MGassembly_by_bowtie.py: run_bowtie_indexing                      *)

IndexingChecks(a) ==
    <<Check(FalsyStr(a.input_assembly), "Error: Assembly input is mandatory."),
      Check(FalsyStr(a.output_index_name), "Error: Output index name is mandatory."),
      Check(FalsyStr(a.output_dir), "Error: Output location is mandatory.")>>

\* line 44
IndexOutputPath(output_dir, output_index_name) ==
    output_dir \o output_index_name \o "_bowtie2_index"

IndexingCmd(a) ==
    <<"bowtie2-build", Val(a.input_assembly),
      IndexOutputPath(Val(a.output_dir), Val(a.output_index_name))>>

\* lines 28-37
run_bowtie_indexing_validate ==
    /\ pc = "run_bowtie_indexing"
    /\ LET f == FirstFailure(IndexingChecks(args)) IN
       IF ~IsNone(f) THEN ErrorExit(Val(f), 1)
       ELSE pc' = "run_bowtie_indexing.prepare" /\ UNCHANGED <<log, exitStatus>>
    /\ UNCHANGED <<entry, args, kmersOut, cmd, dirs, launches, traceback>>

\* lines 39-51
run_bowtie_indexing_prepare ==
    /\ pc = "run_bowtie_indexing.prepare"
    /\ LET argv == IndexingCmd(args) IN
       Prepare("run_bowtie_indexing",
               <<"Index output will be written to: " \o Val(args.output_dir),
                 "Executing indexing command: " \o Join(" ", argv)>>,
               argv)

\* lines 53-66
run_bowtie_indexing_run ==
    /\ pc = "run_bowtie_indexing.run"
    /\ Launch("run_bowtie_indexing", "Indexing", "bowtie2-build", "bowtie2")

----------------------------------------------------------------------------
(* mapReads_MGassembly_by_bowtie.py: run_mapping                           *)

\* variant: `if not threads` in place of `if threads is None`
MappingChecksNotThreads(a) ==
    <<Check(FalsyStr(a.bowtie2_index_folder), "Error: Index location is mandatory."),
      Check(FalsyList(a.r1_reads) \/ FalsyList(a.r2_reads),
            "Error: Paired-end R1 and R2 reads are mandatory."),
      Check(LengthsDiffer(a.r1_reads, a.r2_reads),
            "Error: Number of R1 files must match the number of R2 files."),
      Check(FalsyStr(a.output_dir), "Error: Output directory is mandatory."),
      Check(FalsyStr(a.assembly_name), "Error: Assembly name is mandatory."),
      Check(FalsyStr(a.metagenome_name), "Error: Metagenome name is mandatory."),
      Check(IsNone(a.threads) \/ a.threads = Some(0),
            "Error: Number of threads is mandatory.")>>

MappingChecks(a) ==
    <<Check(FalsyStr(a.bowtie2_index_folder), "Error: Index location is mandatory."),
      Check(FalsyList(a.r1_reads) \/ FalsyList(a.r2_reads),
            "Error: Paired-end R1 and R2 reads are mandatory."),
      Check(LengthsDiffer(a.r1_reads, a.r2_reads),
            "Error: Number of R1 files must match the number of R2 files."),
      Check(FalsyStr(a.output_dir), "Error: Output directory is mandatory."),
      Check(FalsyStr(a.assembly_name), "Error: Assembly name is mandatory."),
      Check(FalsyStr(a.metagenome_name), "Error: Metagenome name is mandatory."),
      Check(IsNone(a.threads), "Error: Number of threads is mandatory.")>>

\* variant: plain concatenation, as line 44 of the index wrapper does
MappingIndexPrefixConcatenated(bowtie2_index_folder, assembly_name) ==
    bowtie2_index_folder \o assembly_name \o "_bowtie2_index"

\* line 67
MappingIndexPrefix(bowtie2_index_folder, assembly_name) ==
    PathJoin(bowtie2_index_folder, assembly_name \o "_bowtie2_index")

\* the file of lines 86, 134, 136, 171, 173 and 210, by its ending
MappingFile(output_dir, metagenome_name, assembly_name, ending) ==
    PathJoin(output_dir,
             metagenome_name \o "_to_" \o assembly_name \o "_bowtie2" \o ending)

\* line 76
SingleReadsStr(single_reads) ==
    IF FalsyList(single_reads) THEN "" ELSE Join(",", Val(single_reads))

\* variant: -U added unconditionally
SingleFlagAlways(single_reads_str) == <<"-U", single_reads_str>>

\* lines 79-80: `if single_reads_str:`
SingleFlag(single_reads_str) ==
    IF single_reads_str # "" THEN <<"-U", single_reads_str>> ELSE <<>>

MappingCmd(a) ==
    <<"bowtie2", "-x",
      MappingIndexPrefix(Val(a.bowtie2_index_folder), Val(a.assembly_name))>>
    \o <<"-1", Join(",", Val(a.r1_reads)), "-2", Join(",", Val(a.r2_reads))>>
    \o SingleFlag(SingleReadsStr(a.single_reads))
    \o <<"-p", Str(Val(a.threads))>>
    \o <<"-S", MappingFile(Val(a.output_dir), Val(a.metagenome_name),
                           Val(a.assembly_name), ".sam")>>

\* lines 39-60
run_mapping_validate ==
    /\ pc = "run_mapping"
    /\ LET f == FirstFailure(MappingChecks(args)) IN
       IF ~IsNone(f) THEN ErrorExit(Val(f), 1)
       ELSE pc' = "run_mapping.prepare" /\ UNCHANGED <<log, exitStatus>>
    /\ UNCHANGED <<entry, args, kmersOut, cmd, dirs, launches, traceback>>

\* lines 62-89
run_mapping_prepare ==
    /\ pc = "run_mapping.prepare"
    /\ LET argv == MappingCmd(args) IN
       Prepare("run_mapping",
               <<"Mapping output will be written to: " \o Val(args.output_dir),
                 "Executing Bowtie2 mapping command: " \o Join(" ", argv)>>,
               argv)

\* lines 91-104
run_mapping_run ==
    /\ pc = "run_mapping.run"
    /\ Launch("run_mapping", "Bowtie2", "bowtie2", "Bowtie2")

----------------------------------------------------------------------------
(* mapReads_MGassembly_by_bowtie.py: samtools_view, samtools_sort,         *)
(* samtools_index                                                          *)

\* the three presence checks each samtools function starts with
SamtoolsChecks(a, step) ==
    <<Check(FalsyStr(a.output_dir),
            "Error: Output directory is mandatory for samtools " \o step \o "."),
      Check(FalsyStr(a.assembly_name),
            "Error: Assembly name is mandatory for samtools " \o step \o "."),
      Check(FalsyStr(a.metagenome_name),
            "Error: Metagenome name is mandatory for samtools " \o step \o ".")>>

\* a samtools function whose body runs to its logger.info: cmd is built and
\* logged, nothing is launched
SamtoolsLogs(f, argv, msg) ==
    /\ cmd' = argv
    /\ log' = Append(log, LogLine("INFO", msg \o ": " \o Join(" ", argv)))
    /\ pc' = AfterReturn(f)
    /\ UNCHANGED <<exitStatus, traceback>>

SamtoolsFails(msg) ==
    ErrorExit(msg, 1) /\ UNCHANGED <<cmd, traceback>>

\* lines 106-141
samtools_view ==
    /\ pc = "samtools_view"
    /\ LET f == FirstFailure(SamtoolsChecks(args, "conversion"))
           sam_file == MappingFile(Val(args.output_dir), Val(args.metagenome_name),
                                   Val(args.assembly_name), ".sam")
           bam_file == MappingFile(Val(args.output_dir), Val(args.metagenome_name),
                                   Val(args.assembly_name), "_unsorted.bam")
       IN  IF ~IsNone(f) THEN SamtoolsFails(Val(f))
           ELSE SamtoolsLogs("samtools_view",
                             <<"samtools", "view", "-b", sam_file, "-o", bam_file>>,
                             "Converting SAM file " \o sam_file
                             \o " to BAM format at " \o bam_file)
    /\ UNCHANGED <<entry, args, kmersOut, dirs, launches>>

\* the names samtools_sort can read at line 177: its parameters and locals,
\* then the names bound at module level
SamtoolsSortNames ==
    {"output_dir", "assembly_name", "metagenome_name", "bam_file",
     "sorted_bam_file", "cmd"}
    \cup {"argparse", "subprocess", "os", "sys", "logging", "logger",
          "run_mapping", "samtools_view", "samtools_sort", "samtools_index",
          "main"}

\* lines 143-180: `str(threads)` at line 177 reads a name that is bound
\* nowhere, so the function raises NameError once its checks have passed
samtools_sort ==
    /\ pc = "samtools_sort"
    /\ LET f == FirstFailure(SamtoolsChecks(args, "sorting"))
           bam_file == MappingFile(Val(args.output_dir), Val(args.metagenome_name),
                                   Val(args.assembly_name), "_unsorted.bam")
           sorted_bam_file ==
               MappingFile(Val(args.output_dir), Val(args.metagenome_name),
                           Val(args.assembly_name), ".bam")
       IN  IF ~IsNone(f) THEN SamtoolsFails(Val(f))
           ELSE IF "threads" \notin SamtoolsSortNames
           THEN Uncaught("NameError") /\ UNCHANGED <<cmd, log>>
           ELSE SamtoolsLogs("samtools_sort",
                             <<"samtools", "sort", "-@", Str(Val(args.threads)),
                               bam_file, "-o", sorted_bam_file>>,
                             "Sorting BAM file " \o bam_file \o " to "
                             \o sorted_bam_file)
    /\ UNCHANGED <<entry, args, kmersOut, dirs, launches>>

\* lines 182-215
samtools_index ==
    /\ pc = "samtools_index"
    /\ LET f == FirstFailure(SamtoolsChecks(args, "indexing"))
           sorted_bam_file ==
               MappingFile(Val(args.output_dir), Val(args.metagenome_name),
                           Val(args.assembly_name), ".bam")
       IN  IF ~IsNone(f) THEN SamtoolsFails(Val(f))
           ELSE SamtoolsLogs("samtools_index",
                             <<"samtools", "index", sorted_bam_file>>,
                             "Indexing BAM file " \o sorted_bam_file)
    /\ UNCHANGED <<entry, args, kmersOut, dirs, launches>>

----------------------------------------------------------------------------
(* The three main() functions.                                             *)

\* main() returns and the interpreter ends the process with status 0
main_return ==
    /\ pc = "main_return"
    /\ exitStatus' = Some(0)
    /\ pc' = "exited"
    /\ UNCHANGED <<entry, args, kmersOut, cmd, log, dirs, launches, traceback>>

Next ==
    \/ validate_kmers_call
    \/ run_metaspades_validate
    \/ run_metaspades_prepare
    \/ run_metaspades_run
    \/ run_bowtie_indexing_validate
    \/ run_bowtie_indexing_prepare
    \/ run_bowtie_indexing_run
    \/ run_mapping_validate
    \/ run_mapping_prepare
    \/ run_mapping_run
    \/ samtools_view
    \/ samtools_sort
    \/ samtools_index
    \/ main_return

Spec == Init /\ [][Next]_vars

----------------------------------------------------------------------------
(* Vocabulary of the properties.                                           *)

AssemblyEntries == {"assembly.main", "run_metaspades"}
IndexEntries == {"index.main", "run_bowtie_indexing"}
MappingEntries == {"mapping.main", "run_mapping"}
WrapperEntries == AssemblyEntries \cup IndexEntries \cup MappingEntries

Exited(n) == pc = "exited" /\ exitStatus = Some(n)

HasPrefix(s, p) == Len(s) >= Len(p) /\ SubSeq(s, 1, Len(p)) = p
Contains(s, p) ==
    \E i \in 1..(Len(s) - Len(p) + 1) : SubSeq(s, i, i + Len(p) - 1) = p

Logged(level, msg) == \E i \in 1..Len(log) : log[i] = LogLine(level, msg)
ErrorLines == {i \in 1..Len(log) : log[i].level = "ERROR"}

\* the external tool each wrapper launches, and the word its log lines use
ToolOf(e) == CASE e \in AssemblyEntries -> "spades.py"
               [] e \in IndexEntries -> "bowtie2-build"
               [] OTHER -> "bowtie2"
ToolWord(e) == CASE e \in AssemblyEntries -> "SPAdes"
                 [] e \in IndexEntries -> "Indexing"
                 [] OTHER -> "Bowtie2"

LastOutcome == launches[Len(launches)].outcome

----------------------------------------------------------------------------
(* C1                                                                      *)

\* C1: in each of the three wrappers, once the launched tool has ended with
\* a non-zero exit code c, the process has exited with status c, and the log
\* holds the error line with the code and the error line with the command.
C1_ExitCodePropagated ==
    \A i \in 1..Len(launches) :
        LET o == launches[i].outcome IN
        (entry \in WrapperEntries /\ o.kind = "returned" /\ o.code > 0) =>
            /\ Exited(o.code)
            /\ Logged("ERROR", ToolWord(entry) \o " command failed with exit code "
                               \o Str(o.code))
            /\ Logged("ERROR", "Command: " \o PyListRepr(launches[i].cmd))

\* the aligner ended with exit code 2 and the mapping wrapper exited with 2
C1_Witness ==
    /\ entry = "mapping.main"
    /\ launches # <<>>
    /\ launches[1].cmd[1] = "bowtie2"
    /\ launches[1].outcome = [kind |-> "returned", code |-> 2]
    /\ Exited(2)
    /\ Logged("ERROR", "Bowtie2 command failed with exit code 2")

----------------------------------------------------------------------------
(* C2                                                                      *)

\* C2: a wrapper started from its main() whose external tool ended with
\* status 0 ends with exit status 0.
C2_SuccessExitsZero ==
    (/\ entry \in MainEntries
     /\ pc = "exited"
     /\ launches # <<>>
     /\ LastOutcome = [kind |-> "returned", code |-> 0])
    => exitStatus = Some(0)

----------------------------------------------------------------------------
(* C3                                                                      *)

\* C3: in each of the three wrappers, when the executable is not found the
\* process has exited with status 1 and its only error line is the
\* tool-specific "command not found" line; the "An unexpected error
\* occurred" line is logged for other exceptions only, and the "failed with
\* exit code" line for non-zero exits only.
C3_NotFoundBranch ==
    (entry \in WrapperEntries /\ launches # <<>>) =>
        LET notFound == \E i \in ErrorLines :
                            HasPrefix(log[i].msg, "Error: '" \o ToolOf(entry)
                                                  \o "' command not found.")
            generic == \E i \in ErrorLines :
                            HasPrefix(log[i].msg, "An unexpected error occurred")
            failed == \E i \in ErrorLines :
                            Contains(log[i].msg, "command failed with exit code")
        IN  /\ LastOutcome.kind = "FileNotFoundError" =>
                Exited(1) /\ notFound /\ ~generic /\ ~failed
                /\ Cardinality(ErrorLines) = 1
            /\ notFound => LastOutcome.kind = "FileNotFoundError"
            /\ generic => LastOutcome.kind = "PermissionError"
            /\ failed => LastOutcome.kind = "returned" /\ LastOutcome.code # 0

\* spades.py is not on PATH: the assembly wrapper exited with 1 after the
\* "command not found" line
C3_Witness ==
    /\ entry = "assembly.main"
    /\ launches # <<>>
    /\ LastOutcome.kind = "FileNotFoundError"
    /\ Exited(1)
    /\ \E i \in ErrorLines :
           HasPrefix(log[i].msg, "Error: 'spades.py' command not found.")

----------------------------------------------------------------------------
(* C4                                                                      *)

\* the tokens of a comma-separated string; the empty string has none
TokensOf(s) == IF s = "" THEN <<>> ELSE Split(s, ",")

\* the token is written as an integer, odd and at most 150
OddIntegerUpTo150(t) ==
    LET p == ParseInt(t) IN p.ok /\ p.val <= 150 /\ p.val % 2 = 1

----------------------------------------------------------------------------
(* C5                                                                      *)

\* both lists were passed, hold at least one file, and differ in length
MismatchedPairs ==
    /\ ~FalsyList(args.r1_reads)
    /\ ~FalsyList(args.r2_reads)
    /\ Len(Val(args.r1_reads)) # Len(Val(args.r2_reads))

\* C5: in the assembly and the mapping wrapper, with non-empty R1 and R2
\* lists of different lengths no external process is launched at any point
\* of the run, and once validation has run the process has exited with 1.
C5_MismatchExitsBeforeLaunch ==
    (entry \in AssemblyEntries \cup MappingEntries /\ MismatchedPairs) =>
        /\ launches = <<>>
        /\ pc # FirstPc(entry) => Exited(1)

\* one R1 file against two R2 files, every other argument valid: the mapping
\* wrapper exited with 1 on the mismatch line
C5_Witness ==
    /\ entry = "mapping.main"
    /\ args.r1_reads = Some(<<"a_R1.fq">>)
    /\ args.r2_reads = Some(<<"a_R2.fq", "b_R2.fq">>)
    /\ ~FalsyStr(args.bowtie2_index_folder)
    /\ Exited(1)
    /\ Logged("ERROR", "Error: Number of R1 files must match the number of R2 files.")
    /\ launches = <<>>

----------------------------------------------------------------------------
(* C6                                                                      *)

\* the mandatory parameters of each wrapper that are missing, each with the
\* error line that names it
MissingFieldLines ==
    LET a == args
        rd == "Error: Paired-end R1 and R2 reads are mandatory."
        asm == IF FalsyStr(a.assembly_name)
               THEN {"Error: Assembly name is mandatory."} ELSE {}
        thr == IF a.threads = None
               THEN {"Error: Number of threads is mandatory."} ELSE {}
        out == IF FalsyStr(a.output_dir)
               THEN {"Error: Output directory is mandatory."} ELSE {}
        reads == IF a.r1_reads = None \/ a.r1_reads = Some(<<>>)
                    \/ a.r2_reads = None \/ a.r2_reads = Some(<<>>)
                 THEN {rd} ELSE {}
    IN  CASE entry \in AssemblyEntries -> reads \cup out \cup asm \cup thr
          [] entry \in MappingEntries ->
               reads \cup out \cup asm \cup thr
               \cup (IF FalsyStr(a.bowtie2_index_folder)
                     THEN {"Error: Index location is mandatory."} ELSE {})
               \cup (IF FalsyStr(a.metagenome_name)
                     THEN {"Error: Metagenome name is mandatory."} ELSE {})
          [] entry \in IndexEntries ->
               (IF FalsyStr(a.input_assembly)
                THEN {"Error: Assembly input is mandatory."} ELSE {})
               \cup (IF FalsyStr(a.output_index_name)
                     THEN {"Error: Output index name is mandatory."} ELSE {})
               \cup (IF FalsyStr(a.output_dir)
                     THEN {"Error: Output location is mandatory."} ELSE {})
          [] OTHER -> {}

\* every error line a presence check of the wrappers can log
MandatoryLines == {m \in {log[i].msg : i \in ErrorLines} :
                       Contains(m, "mandatory.")}

\* the line of the length check, which sits among the presence checks and
\* is the first to fail when both lists are present and differ in length
MismatchLine ==
    IF entry \notin IndexEntries /\ MismatchedPairs
    THEN {"Error: Number of R1 files must match the number of R2 files."}
    ELSE {}

C6_WitnessPresent ==
    /\ entry = "mapping.main"
    /\ args.threads = Some(0)
    /\ MissingFieldLines = {}
    /\ launches # <<>>
    /\ \E i \in 1..(Len(cmd) - 1) : cmd[i] = "-p" /\ cmd[i + 1] = "0"

----------------------------------------------------------------------------
(* C7                                                                      *)

\* the four tokens the pair at 0-based index i is expected to add
ExpectedPairTokens(i) ==
    LET r1 == Val(args.r1_reads)[i + 1]
        r2 == Val(args.r2_reads)[i + 1]
    IN  IF i = 0 THEN <<"-1", r1, "-2", r2>>
        ELSE <<"--pe" \o Str(i) \o "-1", r1, "--pe" \o Str(i) \o "-2", r2>>

\* C7: the command the assembly wrapper builds holds, one after the other
\* in list order, `-1 r1[0] -2 r2[0]` for the first pair and
\* `--pe{i}-1 r1[i] --pe{i}-2 r2[i]` for every later pair i.
C7_PairedFlags ==
    (entry \in AssemblyEntries /\ cmd # <<>>) =>
        LET n == Len(Val(args.r1_reads)) IN
        /\ n >= 1
        /\ \E p \in 0..(Len(cmd) - 4 * n) :
              /\ \A i \in 0..(n - 1) :
                    SubSeq(cmd, p + 4 * i + 1, p + 4 * i + 4) = ExpectedPairTokens(i)
              \* no paired flag outside these 4n tokens
              /\ \A q \in (1..p) \cup ((p + 4 * n + 1)..Len(cmd)) :
                    cmd[q] \notin {"-1", "-2"} /\ ~HasPrefix(cmd[q], "--pe")

\* two pairs: `-1 a_R1.fq -2 a_R2.fq --pe1-1 b_R1.fq --pe1-2 b_R2.fq`
C7_Witness ==
    /\ entry = "assembly.main"
    /\ cmd # <<>>
    /\ \E p \in 0..(Len(cmd) - 8) :
           SubSeq(cmd, p + 1, p + 8) =
               <<"-1", "a_R1.fq", "-2", "a_R2.fq",
                 "--pe1-1", "b_R1.fq", "--pe1-2", "b_R2.fq">>

----------------------------------------------------------------------------
(* C8                                                                      *)

\* d and f joined by exactly one separator, whether or not d ends with one
OneSeparator(d, f) == IF EndsWith(d, "/") THEN d \o f ELSE d \o "/" \o f

\* the argument that follows flag in the command (flag occurs once)
ArgOf(flag) == cmd[(CHOOSE i \in 1..(Len(cmd) - 1) : cmd[i] = flag) + 1]

\* C8 as stated: whatever the folder and the assembly name, the mapping
\* wrapper's `-x` argument is <folder>/<assembly_name>_bowtie2_index with
\* exactly one separator between the two.
C8_PrefixAlwaysInFolder ==
    (entry \in MappingEntries /\ cmd # <<>> /\ cmd[1] = "bowtie2") =>
        ArgOf("-x") = OneSeparator(Val(args.bowtie2_index_folder),
                                   Val(args.assembly_name) \o "_bowtie2_index")

\* C8, amended: the `-x` argument is <folder>/<assembly_name>_bowtie2_index
\* with exactly one separator between the two, whether or not the folder
\* ends with `/`, for an assembly name that does not begin with `/`; for one
\* that does, os.path.join drops the folder and the argument is
\* <assembly_name>_bowtie2_index alone.
C8_IndexPrefix ==
    (entry \in MappingEntries /\ cmd # <<>> /\ cmd[1] = "bowtie2") =>
        LET d == Val(args.bowtie2_index_folder)
            n == Val(args.assembly_name)
        IN  /\ cmd[2] = "-x"
            /\ ~StartsWith(n, "/") => cmd[3] = OneSeparator(d, n \o "_bowtie2_index")
            /\ StartsWith(n, "/") => cmd[3] = n \o "_bowtie2_index"

\* folder /idx/ and assembly name sampleA: `-x /idx/sampleA_bowtie2_index`
C8_Witness ==
    /\ entry = "mapping.main"
    /\ args.bowtie2_index_folder = Some("/idx/")
    /\ args.assembly_name = Some("sampleA")
    /\ launches # <<>>
    /\ launches[1].cmd[2] = "-x"
    /\ launches[1].cmd[3] = "/idx/sampleA_bowtie2_index"

----------------------------------------------------------------------------
(* C9                                                                      *)

\* C9: the prefix the index-build wrapper hands to bowtie2-build is
\* {dir}/{name}_bowtie2_index, and it is the prefix the mapping wrapper reads
\* for bowtie2_index_folder = dir and assembly_name = name, with or without
\* a trailing `/` on dir.
C9_IndexWrittenWhereMappingReads ==
    (entry \in IndexEntries /\ cmd # <<>>) =>
        LET d == Val(args.output_dir)
            n == Val(args.output_index_name)
        IN  /\ cmd[3] = OneSeparator(d, n \o "_bowtie2_index")
            /\ cmd[3] = MappingIndexPrefix(d, n)

----------------------------------------------------------------------------
(* C10                                                                     *)

C10_WitnessEmptySingle ==
    /\ entry = "mapping.main"
    /\ args.single_reads = Some(<<"">>)
    /\ launches # <<>>
    /\ \A i \in 1..Len(cmd) : cmd[i] # "-U"

----------------------------------------------------------------------------
(* C11                                                                     *)

\* the positions of the INFO lines a post-alignment step logs: what it does
\* and, after the colon, its command joined by blanks
StepLines(what, argv) ==
    {i \in 1..Len(log) :
        /\ log[i].level = "INFO"
        /\ HasPrefix(log[i].msg, what)
        /\ Contains(log[i].msg, ": " \o Join(" ", argv))}

\* the files of the mapping run under way, by their endings
RunFile(ending) ==
    MappingFile(Val(args.output_dir), Val(args.metagenome_name),
                Val(args.assembly_name), ending)

ViewLines == StepLines("Converting SAM file",
                       <<"samtools", "view", "-b", RunFile(".sam"),
                         "-o", RunFile("_unsorted.bam")>>)
SortLines == StepLines("Sorting BAM file",
                       <<"samtools", "sort", "-@", Str(Val(args.threads)),
                         RunFile("_unsorted.bam"), "-o", RunFile(".bam")>>)
IndexLines == StepLines("Indexing BAM file",
                        <<"samtools", "index", RunFile(".bam")>>)

AlignerSucceeded ==
    launches # <<>> /\ launches[1].outcome = [kind |-> "returned", code |-> 0]
AlignerFailed ==
    launches # <<>> /\ launches[1].outcome # [kind |-> "returned", code |-> 0]

\* C11: in the mapping wrapper run from main(), once the process has ended
\* after an aligner exit of 0, the conversion, the sort and the index step
\* have each logged their command, in that order, and only the aligner was
\* launched; after a failed aligner run none of the three has logged.
C11_PostAlignmentSteps ==
    (entry = "mapping.main" /\ pc = "exited") =>
        /\ AlignerSucceeded =>
              /\ \E i \in ViewLines : \E j \in SortLines : \E k \in IndexLines :
                     i < j /\ j < k
              /\ Len(launches) = 1
        /\ AlignerFailed =>
              ViewLines = {} /\ SortLines = {} /\ IndexLines = {}

\* what the mapping wrapper run from main() does instead: after an aligner
\* exit of 0 the conversion step logs its command, the sort step raises
\* NameError before it logs, and the index step is never entered
C11_Observed ==
    entry = "mapping.main" =>
        /\ pc # "samtools_index"
        /\ IndexLines = {} /\ SortLines = {}
        /\ (pc = "exited" /\ AlignerSucceeded) =>
              /\ ViewLines # {}
              /\ traceback = Some("NameError")
              /\ Len(launches) = 1
        /\ (pc = "exited" /\ AlignerFailed) => ViewLines = {}

----------------------------------------------------------------------------
(* C12                                                                     *)

\* the launch ended otherwise than with return code 0: a non-zero exit, a
\* signal, the executable not found, or another exception
LaunchFailed(l) == l.outcome # [kind |-> "returned", code |-> 0]

\* at most one launch so far, of the wrapper's own tool, and a failed launch
\* has ended the process
SingleShot ==
    /\ Len(launches) <= 1
    /\ \A i \in 1..Len(launches) :
          /\ launches[i].cmd[1] = ToolOf(entry)
          /\ launches[i].cmd[1] # "samtools"
          /\ LaunchFailed(launches[i]) => pc = "exited" /\ exitStatus # None

C12_WitnessAfterSuccess ==
    /\ entry = "mapping.main"
    /\ pc = "exited"
    /\ AlignerSucceeded
    /\ ViewLines # {}
    /\ Len(launches) = 1

----------------------------------------------------------------------------
(* C13                                                                     *)

\* some token of the k-mer string is not an odd integer <= 150
InvalidKmers ==
    /\ ~FalsyStr(args.kmers)
    /\ \E i \in 1..Len(TokensOf(Val(args.kmers))) :
           ~OddIntegerUpTo150(TokensOf(Val(args.kmers))[i])

\* the arguments of the run fail a validation of its wrapper: a mandatory
\* parameter is missing, the R1 and R2 lists differ in length, or (assembly
\* wrapper) a k-mer token is invalid
ValidationFails ==
    \/ MissingFieldLines # {}
    \/ entry \in AssemblyEntries \cup MappingEntries /\ MismatchedPairs
    \/ entry \in AssemblyEntries /\ InvalidKmers

\* C13: in each wrapper, in a run whose arguments fail a validation, the
\* output directory is never created, no command is built and nothing is
\* launched, and once validation has run the process has exited with 1.
C13_ValidationBeforeEffects ==
    (entry \in WrapperEntries /\ ValidationFails) =>
        /\ dirs = {}
        /\ cmd = <<>>
        /\ launches = <<>>
        /\ traceback = None
        /\ pc # FirstPc(entry) => Exited(1)

\* an even k-mer with every other argument valid: the assembly wrapper has
\* exited with 1 and the output directory was not created
C13_Witness ==
    /\ entry = "assembly.main"
    /\ args.kmers = Some("21,22")
    /\ MissingFieldLines = {}
    /\ ~MismatchedPairs
    /\ Exited(1)
    /\ Logged("ERROR", "Invalid k-mer value '22': K-mer value '22' must be an odd number.")
    /\ dirs = {}
    /\ launches = <<>>

\* with valid arguments the directory is created before the launch
C13_WitnessCreated ==
    /\ entry = "index.main"
    /\ ~ValidationFails
    /\ dirs = {"/idx"}
    /\ launches = <<>>
    /\ pc = "run_bowtie_indexing.run"

====
